---- MODULE Spec2Model ----
(***************************************************************************)
(* Model of the portfolio site's service worker (src/sw.js): the install,  *)
(* activate and fetch listeners, together with the browser objects they    *)
(* act on (the registration's workers, the CacheStorage, the network).     *)
(*                                                                         *)
(* One deployed sw.js is one worker; worker w carries CACHE_VERSION w, so  *)
(* its CACHE_NAME is w.  Lifecycle transitions of the registration are     *)
(* taken one at a time: a worker starts installing or activating only when *)
(* no other worker is installing or activating.                            *)
(***************************************************************************)
EXTENDS Naturals, Integers, Sequences, FiniteSets, TLC

\* ------------------------------------------------------------------ bounds
MaxWorkers == 2      \* deployed versions of sw.js
MaxReq     == 2      \* fetch events in one behaviour
MaxBody    == 2      \* distinct contents the server may return for a URL

Workers  == 1..MaxWorkers
Names    == Workers                 \* cache store names, one per version
Handlers == 1..MaxReq
Bodies   == 1..MaxBody

\* ------------------------------------------------------------------ URLs
\* A URL is a sequence of string tokens, so that startsWith and includes
\* are computed on the text as the code computes them.
Origin == <<"https://", "site.dev">>

IsPrefix(p, s) == Len(p) <= Len(s) /\ SubSeq(s, 1, Len(p)) = p

\* String.prototype.startsWith
StartsWith(s, p) == IsPrefix(p, s)

\* String.prototype.includes
Includes(s, p) ==
    \E i \in 1..(Len(s) + 1) :
        i + Len(p) - 1 <= Len(s) /\ SubSeq(s, i, i + Len(p) - 1) = p

AdminNeedle == <<"/", "admin">>

OFFLINE_URL   == Origin \o <<"/", "offline.html">>
IndexUrl      == Origin \o <<"/", "index.html">>
PostUrl       == Origin \o <<"/", "blog-post.html">>
AdminUrl      == Origin \o <<"/", "admin", "/", "index.html">>
AdminLikeUrl  == Origin \o <<"/", "admin", "istrator.html">>
CdnUrl        == <<"https://", "cdn.net", "/", "lib.js">>
OriginLikeUrl == <<"https://", "site.dev", ".evil.net", "/", "x.js">>

\* The files pre-cached on install (an abstraction of the 38 entries).
PRE_CACHE_URLS == {OFFLINE_URL, IndexUrl}

URLS == {OFFLINE_URL, IndexUrl, PostUrl, AdminUrl, AdminLikeUrl, CdnUrl,
         OriginLikeUrl}

\* What the URL standard says about a URL, independent of the code's tests.
PathStart(u) == CHOOSE i \in 1..(Len(u) + 1) :
                    /\ (i <= Len(u) => u[i] = "/")
                    /\ \A j \in 1..(i - 1) : u[j] # "/"
HostOf(u) == SubSeq(u, 1, PathStart(u) - 1)
SameOrigin(u) == HostOf(u) = Origin
FirstSegment(u) ==
    LET p == PathStart(u)
        rest == SubSeq(u, p + 1, Len(u))
        stop == CHOOSE i \in 1..(Len(rest) + 1) :
                    /\ (i <= Len(rest) => rest[i] = "/")
                    /\ \A j \in 1..(i - 1) : rest[j] # "/"
    IN  SubSeq(rest, 1, stop - 1)
UnderAdmin(u) == FirstSegment(u) = <<"admin">>

\* ------------------------------------------------------------- responses
None      == [kind |-> "undefined"]  \* no entry / a promise resolved with undefined
Null      == [kind |-> "null"]       \* the catch handler's null
Pending   == [kind |-> "pending"]    \* a promise that has not settled yet
Failed    == [kind |-> "rejected"]   \* fetch(request) rejected
Network   == [kind |-> "network"]    \* no respondWith: the browser's own fetch

Statuses == {200, 203, 404}
OkStatus(s) == s >= 200 /\ s <= 299

Methods == {"GET", "POST"}

\* A response, with the URL and the method of the request it answers.
Response == [url : URLS, method : Methods, status : Statuses \cup {0},
             type : {"basic", "cors", "opaque"}, body : Bodies]

IsResponse(r) == "url" \in DOMAIN r

Resp(u, m, s, t, b) ==
    [url |-> u, method |-> m, status |-> s, type |-> t, body |-> b]

\* What the network may answer to a GET of u: a same-origin URL yields a
\* basic response, or a cors one after a redirect to another origin; a
\* URL of another origin never yields a basic response.
\* (Only a 200 basic response can reach the cache, so only its body is
\* varied.)
NetResponses(u, m) ==
    IF SameOrigin(u)
    THEN {Resp(u, m, 200, "basic", b) : b \in Bodies}
         \cup {Resp(u, m, s, "basic", 1) : s \in Statuses \ {200}}
         \cup {Resp(u, m, 200, "cors", 1)}
    ELSE {Resp(u, m, 200, "cors", 1), Resp(u, m, 0, "opaque", 1)}

\* A request: its URL, its method, and whether its Accept header
\* includes text/html.  Pages request every URL but IndexUrl, which stands
\* for the rest of the manifest.
Requests ==
    {r \in [url : URLS \ {IndexUrl}, method : Methods, html : BOOLEAN] :
        r.method = "POST" => (r.url = PostUrl /\ ~r.html)}

\* ----------------------------------------------------------------- state
VARIABLES
    wstate,      \* worker -> parsed | installing | installed | activating
                 \*           | activated | redundant
    wpc,         \* worker -> position inside its install / activate listener
    precache,    \* worker -> none | ok | failed : outcome of cache.addAll
    skipFlag,    \* worker -> self.skipWaiting() was called
    toDelete,    \* worker -> names the activate listener still has to delete
    claimed,     \* worker -> self.clients.claim() was called
    cacheNames,  \* the existing cache stores, in creation order
    content,     \* name -> URL -> cached response or None
    pageOpen,    \* a page of the site is open in the browser
    ev           \* handler -> the fetch event it is handling (at: the place
                 \* of its network response in the order of arrival)

vars == <<wstate, wpc, precache, skipFlag, toDelete, claimed, cacheNames,
          content, pageOpen, ev>>

\* caches.has(name)
Has(names, n) == \E i \in 1..Len(names) : names[i] = n
Exists(n) == Has(cacheNames, n)
EmptyStore == [u \in URLS |-> None]

IdleEv == [w |-> 0, req |-> [url |-> OFFLINE_URL, method |-> "GET", html |-> FALSE],
           pc |-> "idle", cached |-> None, net |-> None, resp |-> Pending,
           put |-> "none", at |-> 0]

Init ==
    /\ wstate = [w \in Workers |-> "parsed"]
    /\ wpc = [w \in Workers |-> "-"]
    /\ precache = [w \in Workers |-> "none"]
    /\ skipFlag = [w \in Workers |-> FALSE]
    /\ toDelete = [w \in Workers |-> {}]
    /\ claimed = [w \in Workers |-> FALSE]
    /\ cacheNames = <<>>
    /\ content = [n \in Names |-> EmptyStore]
    /\ pageOpen = FALSE
    /\ ev = [h \in Handlers |-> IdleEv]

\* --------------------------------------------------- CacheStorage / Cache
\* caches.open(name): the store is created when it does not exist.
CachesOpen(names, n) ==
    IF \E i \in 1..Len(names) : names[i] = n THEN names ELSE Append(names, n)

\* caches.delete(name)
RECURSIVE Without(_, _)
Without(s, n) ==
    IF s = <<>> THEN <<>>
    ELSE IF Head(s) = n THEN Without(Tail(s), n)
         ELSE <<Head(s)>> \o Without(Tail(s), n)

\* cache.match(request) on the store named n
CacheMatch(n, u) == IF Exists(n) THEN content[n][u] ELSE None

\* caches.match(url): the first store, in creation order, holding the URL
CachesMatch(u) ==
    LET hits == {i \in 1..Len(cacheNames) : content[cacheNames[i]][u] # None}
    IN  IF hits = {} THEN None
        ELSE content[cacheNames[CHOOSE i \in hits : \A j \in hits : i <= j]][u]

\* (mutant) addAll that stores each response as it arrives
AddAllPartial(store, fetched, failing) ==
    [u \in URLS |-> IF u \in (DOMAIN fetched) \ failing THEN fetched[u] ELSE store[u]]

\* cache.addAll(urls): every URL is fetched; the store is written, all
\* entries in one batch, only when every fetch gave an ok response.
AddAll(store, fetched, failing) ==
    IF failing = {} THEN [u \in URLS |-> IF u \in DOMAIN fetched THEN fetched[u] ELSE store[u]]
    ELSE store

\* (mutant) a put that stores nothing
CachePutLost(store, u, r) == store

\* cache.put(request, response)
CachePut(store, u, r) == [store EXCEPT ![u] = r]

\* ------------------------------------------------------------ registration
Busy == \E w \in Workers : wstate[w] \in {"installing", "activating"}
Active == {w \in Workers : wstate[w] \in {"activating", "activated"}}
Waiting == {w \in Workers : wstate[w] = "installed"}
Deployed == {w \in Workers : wstate[w] # "parsed"}

\* An event of worker w whose respondWith promise has not settled.
PendingEvents(w) ==
    \E h \in Handlers : /\ ev[h].w = w
                        /\ ev[h].pc \in {"match", "net", "offline"}
                        /\ ev[h].resp = Pending

\* ---------------------------------------------------------------- install
\* A new sw.js is deployed and the browser fires its install event.
Deploy(w) ==
    /\ wstate[w] = "parsed"
    /\ \A v \in Workers : v < w => wstate[v] # "parsed"
    /\ ~Busy
    /\ wstate' = [wstate EXCEPT ![w] = "installing"]
    /\ wpc' = [wpc EXCEPT ![w] = "i_open"]
    /\ UNCHANGED <<precache, skipFlag, toDelete, claimed, cacheNames, content, pageOpen, ev>>

\* caches.open(CACHE_NAME)
InstallOpen(w) ==
    /\ wstate[w] = "installing" /\ wpc[w] = "i_open"
    /\ cacheNames' = CachesOpen(cacheNames, w)
    /\ wpc' = [wpc EXCEPT ![w] = "i_addAll"]
    /\ UNCHANGED <<wstate, precache, skipFlag, toDelete, claimed, content, pageOpen, ev>>

\* The promise handed to event.waitUntil: open, addAll, skipWaiting, and a
\* catch that logs.  The value is how that promise settles.
InstallPromise(addAllOk) == "fulfilled"

\* The browser's step after the install event's promise has settled.
AfterInstall(w, settled) ==
    IF settled = "fulfilled" THEN "installed" ELSE "redundant"

\* cache.addAll(PRE_CACHE_URLS), then skipWaiting() or the catch; the
\* install event ends and the worker becomes the waiting worker (an older
\* waiting worker becomes redundant).
InstallAddAll(w) ==
    /\ wstate[w] = "installing" /\ wpc[w] = "i_addAll"
    /\ \E failing \in SUBSET PRE_CACHE_URLS, s \in {200, 203} :
        LET fetched == [u \in PRE_CACHE_URLS |-> Resp(u, "GET", s, "basic", 1)]
            ok == failing = {}
            next == AfterInstall(w, InstallPromise(ok))
        IN  /\ content' = [content EXCEPT ![w] = AddAll(content[w], fetched, failing)]
            /\ precache' = [precache EXCEPT ![w] = IF ok THEN "ok" ELSE "failed"]
            /\ skipFlag' = [skipFlag EXCEPT ![w] = ok]
            /\ wstate' = [v \in Workers |->
                            IF v = w THEN next
                            ELSE IF next = "installed" /\ wstate[v] = "installed"
                                 THEN "redundant" ELSE wstate[v]]
    /\ wpc' = [wpc EXCEPT ![w] = "-"]
    /\ UNCHANGED <<toDelete, claimed, cacheNames, pageOpen, ev>>

\* --------------------------------------------------------------- activate
\* (mutant) the filter with the comparison turned round
OldCachesOwn(names, w) == {names[i] : i \in 1..Len(names)} \cap {w}

\* cacheNames.filter(name => name !== CACHE_NAME)
OldCaches(names, w) == {names[i] : i \in 1..Len(names)} \ {w}

\* The browser's Try Activate: the waiting worker replaces the active one
\* once that one has no pending events and either no page uses it or the
\* waiting worker called skipWaiting().  The activate event fires and the
\* listener's caches.keys() resolves.  The replaced worker is redundant: the
\* browser may stop it at once, or let the handlers it still runs in the
\* background (their response is settled) go on.
StartActivate(w) ==
    /\ wstate[w] = "installed"
    /\ ~Busy
    /\ \A a \in Active : ~PendingEvents(a) /\ (skipFlag[w] \/ ~pageOpen)
    /\ wstate' = [v \in Workers |->
                    IF v = w THEN "activating"
                    ELSE IF v \in Active THEN "redundant" ELSE wstate[v]]
    /\ wpc' = [wpc EXCEPT ![w] = "a_delete"]
    /\ toDelete' = [toDelete EXCEPT ![w] = OldCaches(cacheNames, w)]
    /\ \E stop \in BOOLEAN :
          ev' = [h \in Handlers |->
                    IF stop /\ ev[h].w \in Active
                            /\ ev[h].pc \in {"net", "offline", "put"}
                    THEN [ev[h] EXCEPT !.pc = "terminated"] ELSE ev[h]]
    /\ UNCHANGED <<precache, skipFlag, claimed, cacheNames, content, pageOpen>>

\* caches.delete(name), one of the deletions under Promise.all
ActivateDelete(w, n) ==
    /\ wstate[w] = "activating" /\ wpc[w] = "a_delete"
    /\ n \in toDelete[w]
    /\ cacheNames' = Without(cacheNames, n)
    /\ content' = [content EXCEPT ![n] = EmptyStore]
    /\ toDelete' = [toDelete EXCEPT ![w] = @ \ {n}]
    /\ UNCHANGED <<wstate, wpc, precache, skipFlag, claimed, pageOpen, ev>>

\* (mutant) clients.claim() not chained behind the deletions
ActivateClaimEarly(w) ==
    /\ wstate[w] = "activating" /\ wpc[w] = "a_delete"
    /\ claimed' = [claimed EXCEPT ![w] = TRUE]
    /\ wstate' = [wstate EXCEPT ![w] = "activated"]
    /\ wpc' = [wpc EXCEPT ![w] = "-"]
    /\ UNCHANGED <<precache, skipFlag, toDelete, cacheNames, content, pageOpen, ev>>

\* self.clients.claim() once every deletion is done; the activate event
\* ends and the worker is activated.
ActivateClaim(w) ==
    /\ wstate[w] = "activating" /\ wpc[w] = "a_delete"
    /\ toDelete[w] = {}
    /\ claimed' = [claimed EXCEPT ![w] = TRUE]
    /\ wstate' = [wstate EXCEPT ![w] = "activated"]
    /\ wpc' = [wpc EXCEPT ![w] = "-"]
    /\ UNCHANGED <<precache, skipFlag, toDelete, cacheNames, content, pageOpen, ev>>

\* ------------------------------------------------------------------ pages
OpenPage ==
    /\ ~pageOpen
    /\ pageOpen' = TRUE
    /\ UNCHANGED <<wstate, wpc, precache, skipFlag, toDelete, claimed, cacheNames, content, ev>>

ClosePage ==
    /\ pageOpen
    /\ \A h \in Handlers : ev[h].resp # Pending \/ ev[h].pc = "idle"
    /\ pageOpen' = FALSE
    /\ UNCHANGED <<wstate, wpc, precache, skipFlag, toDelete, claimed, cacheNames, content, ev>>

\* ------------------------------------------------------------------ fetch
\* The three guards of the fetch listener: TRUE when it calls respondWith.
Intercepts(req) ==
    /\ req.method = "GET"
    /\ StartsWith(req.url, Origin)
    /\ ~Includes(req.url, AdminNeedle)

\* (mutant) the test without the type check
CacheableAnyType(r) == r.status = 200

\* networkResponse && status === 200 && type === 'basic'
Cacheable(r) == r.status = 200 /\ r.type = "basic"

\* request.headers.get('Accept') includes 'text/html'
AcceptsHtml(req) == req.html

\* (mutant) network first: networkFetch || cachedResponse
RespondNetworkFirst(cachedResponse, networkFetch) ==
    IF networkFetch # None THEN networkFetch ELSE cachedResponse

\* return cachedResponse || networkFetch
Respond(cachedResponse, networkFetch) ==
    IF cachedResponse # None THEN cachedResponse ELSE networkFetch

\* (mutant) the catch handler looks up the offline page for every request
CatchValueOffline == CachesMatch(OFFLINE_URL)

\* The value the network catch handler resolves with when it need not
\* look up the offline page.
CatchValue == Null

\* A page request reaches the activated worker's fetch listener.
FetchEvent(h, w, req) ==
    /\ pageOpen
    /\ wstate[w] = "activated"
    /\ ev[h].pc = "idle"
    /\ \A g \in Handlers : g < h => ev[g].pc # "idle"
    /\ ev' = [ev EXCEPT ![h] =
                IF Intercepts(req)
                THEN [IdleEv EXCEPT !.w = w, !.req = req, !.pc = "match"]
                ELSE [IdleEv EXCEPT !.w = w, !.req = req, !.pc = "bypassed",
                                    !.resp = Network]]
    /\ UNCHANGED <<wstate, wpc, precache, skipFlag, toDelete, claimed, cacheNames, content, pageOpen>>

\* caches.open(CACHE_NAME) and cache.match(request) resolved; then
\* fetch(request) is started and cachedResponse || networkFetch is
\* returned to respondWith.
FetchMatch(h) ==
    /\ ev[h].pc = "match"
    /\ cacheNames' = CachesOpen(cacheNames, ev[h].w)
    /\ LET c == CacheMatch(ev[h].w, ev[h].req.url)
       IN  ev' = [ev EXCEPT ![h].pc = "net", ![h].cached = c, ![h].net = Pending,
                            ![h].resp = Respond(c, Pending)]
    /\ UNCHANGED <<wstate, wpc, precache, skipFlag, toDelete, claimed, content, pageOpen>>

\* The number of network fetches that have resolved so far; ev[h].at is the
\* place of handler h's fetch in the order of resolution.
Resolved == Cardinality({g \in Handlers : ev[g].at > 0})

\* fetch(request) resolved: the response is put in the cache when it is
\* cacheable, and networkFetch resolves with it.
FetchNetOk(h) ==
    /\ ev[h].pc = "net"
    /\ \E r \in NetResponses(ev[h].req.url, ev[h].req.method) :
          ev' = [ev EXCEPT ![h].net = r,
                           ![h].at = Resolved + 1,
                           ![h].put = IF Cacheable(r) THEN "pending" ELSE "none",
                           ![h].pc = IF Cacheable(r) THEN "put" ELSE "done",
                           ![h].resp = Respond(ev[h].cached, r)]
    /\ UNCHANGED <<wstate, wpc, precache, skipFlag, toDelete, claimed, cacheNames, content, pageOpen>>

\* fetch(request) rejected: the catch handler runs.
FetchNetFail(h) ==
    /\ ev[h].pc = "net"
    /\ ev' = IF AcceptsHtml(ev[h].req)
             THEN [ev EXCEPT ![h].net = Failed, ![h].pc = "offline"]
             ELSE [ev EXCEPT ![h].net = Failed, ![h].pc = "done",
                             ![h].resp = Respond(ev[h].cached, CatchValue)]
    /\ UNCHANGED <<wstate, wpc, precache, skipFlag, toDelete, claimed, cacheNames, content, pageOpen>>

\* caches.match('/offline.html') resolved.
FetchOffline(h) ==
    /\ ev[h].pc = "offline"
    /\ ev' = [ev EXCEPT ![h].pc = "done",
                        ![h].resp = Respond(ev[h].cached, CachesMatch(OFFLINE_URL))]
    /\ UNCHANGED <<wstate, wpc, precache, skipFlag, toDelete, claimed, cacheNames, content, pageOpen>>

\* (mutant) the store looked up by name again for the write:
\* caches.open(CACHE_NAME).then(c => c.put(request, responseToCache))
FetchPutOkReopen(h) ==
    /\ ev[h].pc = "put"
    /\ cacheNames' = CachesOpen(cacheNames, ev[h].w)
    /\ content' = [content EXCEPT ![ev[h].w] = CachePut(@, ev[h].req.url, ev[h].net)]
    /\ ev' = [ev EXCEPT ![h].pc = "done", ![h].put = "ok"]
    /\ UNCHANGED <<wstate, wpc, precache, skipFlag, toDelete, claimed, pageOpen>>

\* cache.put(request, responseToCache) resolved.  The write goes to the
\* Cache object opened at the start of the handler; once its store has been
\* deleted the object is detached and the named stores do not change.
FetchPutOk(h) ==
    /\ ev[h].pc = "put"
    /\ content' = IF Exists(ev[h].w)
                  THEN [content EXCEPT ![ev[h].w] = CachePut(@, ev[h].req.url, ev[h].net)]
                  ELSE content
    /\ ev' = [ev EXCEPT ![h].pc = "done", ![h].put = "ok"]
    /\ UNCHANGED <<wstate, wpc, precache, skipFlag, toDelete, claimed, cacheNames, pageOpen>>

\* (mutant) the put awaited inside the chain: its rejection reaches the
\* catch handler and replaces the response.
FetchPutFailAwaited(h) ==
    /\ ev[h].pc = "put"
    /\ ev' = [ev EXCEPT ![h].pc = "done", ![h].put = "failed",
                        ![h].resp = Respond(ev[h].cached, CatchValue)]
    /\ UNCHANGED <<wstate, wpc, precache, skipFlag, toDelete, claimed, cacheNames, content, pageOpen>>

\* cache.put rejected (quota exceeded, storage disabled); nothing awaits it.
FetchPutFail(h) ==
    /\ ev[h].pc = "put"
    /\ ev' = [ev EXCEPT ![h].pc = "done", ![h].put = "failed"]
    /\ UNCHANGED <<wstate, wpc, precache, skipFlag, toDelete, claimed, cacheNames, content, pageOpen>>

\* =================================================================== cart
\* ShopCart (js/components/shop-cart.js).  A page holds one ShopCart object;
\* every page of the origin shares one localStorage.  JavaScript runs a call
\* to completion, so each public method is one action.  updateNavBadge and
\* renderDrawer write the DOM only; what is kept of them is the exception
\* renderDrawer can raise.  A line item keeps the fields id, price, image and
\* quantity (name and category are copied the way id and image are).
MaxQty   == 2      \* largest quantity a line item reaches
MaxPages == 2      \* pages of the origin that hold a ShopCart
Pages    == 1 .. MaxPages
Ids      == {"a", "b"}
STORAGE_KEY == "portfolio-shop-cart"
Placeholder == "box-emoji"

\* JavaScript numbers that occur as a price or a subtotal, and null.
Num(n) == [t |-> "num", v |-> n]
NaN    == [t |-> "nan", v |-> 0]
JsNull == [t |-> "null", v |-> 0]

\* parseFloat(text): the number a leading numeral denotes, NaN otherwise
\* (a missing data-product-price attribute arrives as null).
Numerals == [s \in {"5", "12"} |-> IF s = "5" THEN 5 ELSE 12]
ParseFloat(text) == IF text \in DOMAIN Numerals THEN Num(Numerals[text]) ELSE NaN

\* price * quantity and sum + term, as the JavaScript operators compute them:
\* null converts to 0, NaN is contagious.
JsMul(price, q) ==
    CASE price.t = "num"  -> Num(price.v * q)
      [] price.t = "null" -> Num(0)
      [] OTHER            -> NaN
JsAdd(a, b) == IF a.t = "num" /\ b.t = "num" THEN Num(a.v + b.v) ELSE NaN

\* The product descriptors the shop page offers (data-product-* attributes).
Products ==
    { [id |-> "a", price |-> "5", image |-> ""],
      [id |-> "b", price |-> "",  image |-> "img.png"] }

\* The descriptor the shop page offers for id.
ProductOf(id) == CHOOSE product \in Products : product.id = id

\* JavaScript values held in ShopCart.items: an array, or what a foreign
\* record parses to.
Arr(s)      == [t |-> "array", v |-> s]
NullValue   == [t |-> "null", v |-> <<>>]
ObjectValue == [t |-> "object", v |-> <<>>]
IsArray(x)  == x.t = "array"

\* localStorage.getItem(STORAGE_KEY): null when absent, else the stored text.
\* A text is kept as the value it denotes, or as "garbage" when it is no JSON.
Absent    == [t |-> "absent", v |-> <<>>]
EmptyText == [t |-> "empty", v |-> <<>>]
Garbage   == [t |-> "garbage", v |-> <<>>]
Json(x)   == [t |-> "json", v |-> x]

\* JSON.stringify: a number that is not finite is written as null.
StringifyNumber(n) == IF n.t = "num" THEN n ELSE JsNull
StringifyItem(i) == [i EXCEPT !.price = StringifyNumber(i.price)]
JSONStringify(x) ==
    IF IsArray(x)
    THEN Json(Arr([k \in 1 .. Len(x.v) |-> StringifyItem(x.v[k])]))
    ELSE Json(x)
\* JSON.parse: the value the text denotes; it throws on any other text.
ParseThrows(text) == text.t # "json"
JSONParse(text) == text.v

VARIABLES
    items,      \* items[p]: the value of ShopCart.items on page p
    storage,    \* localStorage entry under STORAGE_KEY, shared by the pages
    lastOp,     \* the last ShopCart call: its arguments and what it did
    drawer,     \* drawer[p]: the document of page p has the #cart-items element
    adds        \* adds[p][id]: addItem calls for id since id was absent from
                \* the cart of page p, -1 once another call touched id

cartVars == <<items, storage, lastOp, drawer, adds>>

\* The other page scripts: ThemeManager and ContentLoader.
VARIABLES
    dataTheme,    \* data-theme attribute of <html>
    savedTheme,   \* localStorage entry 'preferred-theme'
    osDark,       \* matchMedia('(prefers-color-scheme: dark)').matches
    themeBound,   \* bindEvents() has run in the open page
    themeDoc,     \* the document has #theme-toggle / meta[name=theme-color]
    metaColor,    \* content of the meta theme-color element
    chosen,       \* the theme of the user's last click on the toggle
    themeOp,      \* the last ThemeManager step
    kindOf,       \* kindOf[c]: data-content attribute of container c
    cpc,          \* cpc[c]: where loadContent(c) stands
    dataCache,    \* ContentLoader.cache
    fetches,      \* fetches[type]: network fetches issued for the data file
    shown         \* shown[c]: the data container c was rendered from

themeVars == <<dataTheme, savedTheme, osDark, themeBound, themeDoc, metaColor, chosen, themeOp>>
loaderVars == <<kindOf, cpc, dataCache, fetches, shown>>
allVars == <<vars, cartVars, themeVars, loaderVars>>

\* localStorage.getItem('preferred-theme') when nothing is stored.
NoTheme == "(null)"
\* No page has run ThemeManager yet.
ThemeIdle ==
    /\ dataTheme = NoTheme
    /\ savedTheme = NoTheme
    /\ osDark = FALSE
    /\ themeBound = FALSE
    /\ themeDoc = [toggle |-> FALSE, meta |-> FALSE]
    /\ metaColor = NoTheme
    /\ chosen = NoTheme
    /\ themeOp = "none"

MaxContainers == 2     \* [data-content] elements of the page
MaxFetch == 3          \* network fetches of one data file
MaxRevision == 2       \* contents a data file is served with
Containers == 1 .. MaxContainers
ContentTypes == {"projects", "projects-featured", "services", "gallery"}
DataTypes == {"projects", "services"}
NoData == 0
Stage(at) == [pc |-> at, body |-> NoData]
\* DOMContentLoaded has not fired: no container is loading.
LoaderIdle ==
    /\ kindOf = [c \in Containers |-> "projects"]
    /\ cpc = [c \in Containers |-> Stage("idle")]
    /\ dataCache = [t \in DataTypes |-> NoData]
    /\ fetches = [t \in DataTypes |-> 0]
    /\ shown = [c \in Containers |-> NoData]

NoOp ==
    [op |-> "none", page |-> 0, id |-> "", q |-> 0, ok |-> TRUE,
     threw |-> FALSE, result |-> Num(0), trace |-> <<>>]

\* The pages that work on their cart, and the documents they may have.
CartPages == {1}
Documents == {d \in [Pages -> BOOLEAN] : \A p \in Pages \ CartPages : ~d[p]}

\* No page has run the script yet: items is the literal [] of the object.
CartIdle ==
    /\ items = [p \in Pages |-> Arr(<<>>)]
    /\ lastOp = NoOp
    /\ adds = [p \in Pages |-> [i \in Ids |-> 0]]
\* A first visit: nothing is stored under the key.
CartInit ==
    /\ CartIdle
    /\ storage = Absent
    /\ drawer \in Documents

\* Array.prototype.find(item => item.id === id): the first match, 0 for none.
Find(s, id) ==
    IF \E k \in 1 .. Len(s) : s[k].id = id
    THEN CHOOSE k \in 1 .. Len(s) :
            s[k].id = id /\ \A j \in 1 .. (k - 1) : s[j].id # id
    ELSE 0

\* Array.prototype.filter(keep).
RECURSIVE Filter(_, _)
Filter(s, id) ==
    IF s = <<>> THEN <<>>
    ELSE IF Head(s).id # id THEN <<Head(s)>> \o Filter(Tail(s), id)
    ELSE Filter(Tail(s), id)

\* getTotalItems(): reduce((sum, item) => sum + item.quantity, 0).
RECURSIVE ReduceQuantity(_, _)
ReduceQuantity(sum, s) ==
    IF s = <<>> THEN sum ELSE ReduceQuantity(sum + Head(s).quantity, Tail(s))
getTotalItemsWithoutFirst(s) == ReduceQuantity(0, IF s = <<>> THEN s ELSE Tail(s))
getTotalItems(s) == ReduceQuantity(0, s)

\* getSubtotal(): reduce((sum, item) => sum + item.price * item.quantity, 0).
RECURSIVE ReduceSubtotal(_, _)
ReduceSubtotal(sum, s) ==
    IF s = <<>> THEN sum
    ELSE ReduceSubtotal(JsAdd(sum, JsMul(Head(s).price, Head(s).quantity)), Tail(s))
getSubtotal(s) == ReduceSubtotal(Num(0), s)

\* What a call did: the new items, the new storage entry, the effects in the
\* order they happened, and whether the call threw.
Outcome(x, store, trace, threw) ==
    [items |-> x, storage |-> store, trace |-> trace, threw |-> threw]
\* A TypeError: items is not an array, so it has no find, filter or reduce.
Throws(x, store) == Outcome(x, store, <<>>, TRUE)

\* load(): try { stored ? JSON.parse(stored) : [] } catch { [] }.
\* readable is FALSE when localStorage.getItem throws.
loadNothing(store, readable) == Arr(<<>>)
load(store, readable) ==
    IF ~readable THEN Arr(<<>>)
    ELSE IF store.t \in {"absent", "empty"} THEN Arr(<<>>)
    ELSE IF ParseThrows(store) THEN Arr(<<>>)
    ELSE JSONParse(store)

\* renderDrawer(): nothing to draw into without #cart-items; otherwise
\* items.length, items.map and formatPrice(item.price) = '$' +
\* price.toFixed(2) are evaluated, and null has no toFixed.
renderDrawerThrows(x, d) ==
    /\ d
    /\ \/ ~IsArray(x)
       \/ \E k \in 1 .. Len(x.v) : x.v[k].price.t = "null"

\* save(): try { setItem(key, JSON.stringify(items)) } catch { warn };
\* updateNavBadge(); renderDrawer().  ok is FALSE when setItem throws (quota,
\* storage disabled); the two renderers run outside the try.
WriteEffect(x, ok) == [e |-> "write", ok |-> ok, snap |-> JSONStringify(x)]
saveFirstLine(x, store, ok, d) ==
    Outcome(x, IF ~ok THEN store
               ELSE JSONStringify(IF Len(x.v) <= 1 THEN x ELSE Arr(<<Head(x.v)>>)),
            <<WriteEffect(x, ok)>>, renderDrawerThrows(x, d))
save(x, store, ok, d) ==
    Outcome(x, IF ok THEN JSONStringify(x) ELSE store, <<WriteEffect(x, ok)>>,
            renderDrawerThrows(x, d))

\* dispatchEvent('cart:updated'): detail is { items, total, subtotal }.
dispatchEvent(x) ==
    [e |-> "notify", items |-> x, total |-> getTotalItems(x.v),
     subtotal |-> getSubtotal(x.v)]

\* The tail of every mutating method: this.save(); this.dispatchEvent(...).
\* An exception out of save() skips the dispatch.
dispatchThenSave(x, store, ok, d) ==
    LET saved == save(x, store, ok, d)
    IN  Outcome(x, saved.storage, <<dispatchEvent(x)>> \o saved.trace, FALSE)
saveThenDispatch(x, store, ok, d) ==
    LET saved == save(x, store, ok, d)
    IN  IF saved.threw THEN saved
        ELSE Outcome(x, saved.storage, saved.trace \o <<dispatchEvent(x)>>, FALSE)

\* The line item addItem pushes for a product that is not in the cart.
NewItem(product) ==
    [id |-> product.id, price |-> ParseFloat(product.price),
     image |-> IF product.image = "" THEN Placeholder ELSE product.image,
     quantity |-> 1]

\* addItem(product)
addItemAlwaysPush(x, store, product, ok, d) ==
    IF ~IsArray(x) THEN Throws(x, store)
    ELSE saveThenDispatch(Arr(Append(x.v, NewItem(product))), store, ok, d)
addItem(x, store, product, ok, d) ==
    IF ~IsArray(x) THEN Throws(x, store)
    ELSE LET existing == Find(x.v, product.id)
             next == IF existing > 0
                     THEN [x.v EXCEPT ![existing].quantity = @ + 1]
                     ELSE Append(x.v, NewItem(product))
         IN  saveThenDispatch(Arr(next), store, ok, d)

\* removeItem(productId)
removeItemAndRest(x, store, id, ok, d) ==
    IF ~IsArray(x) THEN Throws(x, store)
    ELSE LET k == Find(x.v, id)
         IN  saveThenDispatch(Arr(IF k = 0 THEN x.v ELSE SubSeq(x.v, 1, k - 1)),
                              store, ok, d)
removeItem(x, store, id, ok, d) ==
    IF ~IsArray(x) THEN Throws(x, store)
    ELSE saveThenDispatch(Arr(Filter(x.v, id)), store, ok, d)

\* updateQuantity(productId, newQuantity)
updateQuantityStrict(x, store, id, q, ok, d) ==
    IF ~IsArray(x) THEN Throws(x, store)
    ELSE LET item == Find(x.v, id)
         IN  IF item = 0 THEN Outcome(x, store, <<>>, FALSE)
             ELSE IF q < 0 THEN removeItem(x, store, id, ok, d)
             ELSE saveThenDispatch(Arr([x.v EXCEPT ![item].quantity = q]), store, ok, d)
updateQuantityAdds(x, store, id, q, ok, d) ==
    IF ~IsArray(x) THEN Throws(x, store)
    ELSE LET item == Find(x.v, id)
         IN  IF item = 0 THEN saveThenDispatch(x, store, ok, d)
             ELSE IF q <= 0 THEN removeItem(x, store, id, ok, d)
             ELSE saveThenDispatch(Arr([x.v EXCEPT ![item].quantity = @ + q]), store, ok, d)
updateQuantity(x, store, id, q, ok, d) ==
    IF ~IsArray(x) THEN Throws(x, store)
    ELSE LET item == Find(x.v, id)
         IN  IF item = 0 THEN Outcome(x, store, <<>>, FALSE)
             ELSE IF q <= 0 THEN removeItem(x, store, id, ok, d)
             ELSE saveThenDispatch(Arr([x.v EXCEPT ![item].quantity = q]), store, ok, d)

\* clearCart()
clearCart(x, store, ok, d) == saveThenDispatch(Arr(<<>>), store, ok, d)

\* ------------------------------------------------------------ cart actions
Call(op, p, id, q, ok, out, result) ==
    [op |-> op, page |-> p, id |-> id, q |-> q, ok |-> ok,
     threw |-> out.threw, result |-> result, trace |-> out.trace]

Present(x, id) == IsArray(x) /\ Find(x.v, id) > 0

\* adds after a call that leaves the value x in items: an id that is absent
\* starts counting at 0.
Recount(x, old, counted) ==
    [i \in Ids |->
        IF ~IsArray(x) THEN -1
        ELSE IF i \in counted THEN (IF old[i] >= 0 THEN old[i] + 1 ELSE -1)
        ELSE IF ~Present(x, i) THEN 0
        ELSE old[i]]

Apply(p, call, out, newAdds) ==
    /\ items' = [items EXCEPT ![p] = out.items]
    /\ storage' = out.storage
    /\ lastOp' = call
    /\ drawer' = drawer
    /\ adds' = [adds EXCEPT ![p] = newAdds]

\* DOMContentLoaded: init() runs load(), bindEvents(), updateNavBadge() and
\* renderDrawer(); load() itself never throws.
Load(p) ==
    \E readable \in BOOLEAN :
        LET x == load(storage, readable)
            out == Outcome(x, storage, <<>>, renderDrawerThrows(x, drawer[p]))
        IN  Apply(p, Call("load", p, "", 0, readable, out, Num(0)), out,
                  [i \in Ids |-> IF Present(x, i) \/ ~IsArray(x) THEN -1 ELSE 0])

AddItem(p, product) ==
    /\ IsArray(items[p]) =>
          \A k \in 1 .. Len(items[p].v) :
              items[p].v[k].id = product.id => items[p].v[k].quantity < MaxQty
    /\ \E ok \in BOOLEAN :
        LET out == addItem(items[p], storage, product, ok, drawer[p])
        IN  Apply(p, Call("addItem", p, product.id, 0, ok, out, Num(0)), out,
                  IF ~IsArray(items[p]) THEN adds[p]
                  ELSE Recount(out.items, adds[p], {product.id}))

RemoveItem(p, id) ==
    \E ok \in BOOLEAN :
        LET out == removeItem(items[p], storage, id, ok, drawer[p])
        IN  Apply(p, Call("removeItem", p, id, 0, ok, out, Num(0)), out,
                  IF ~IsArray(items[p]) THEN adds[p] ELSE Recount(out.items, adds[p], {}))

UpdateQuantity(p, id, q) ==
    \E ok \in BOOLEAN :
        LET out == updateQuantity(items[p], storage, id, q, ok, drawer[p])
        IN  Apply(p, Call("updateQuantity", p, id, q, ok, out, Num(0)), out,
                  IF ~IsArray(items[p]) THEN adds[p]
                  ELSE IF Present(items[p], id)
                  THEN Recount(out.items, [adds[p] EXCEPT ![id] = -1], {})
                  ELSE adds[p])

ClearCart(p) ==
    \E ok \in BOOLEAN :
        LET out == clearCart(items[p], storage, ok, drawer[p])
        IN  Apply(p, Call("clearCart", p, "", 0, ok, out, Num(0)), out,
                  Recount(out.items, adds[p], {}))

\* The two reads: they return a number or throw, and assign nothing.
GetTotalItems(p) ==
    LET x == items[p]
        out == IF IsArray(x) THEN Outcome(x, storage, <<>>, FALSE) ELSE Throws(x, storage)
    IN  Apply(p, Call("getTotalItems", p, "", 0, TRUE, out,
                      IF IsArray(x) THEN Num(getTotalItems(x.v)) ELSE NaN),
              out, adds[p])

GetSubtotal(p) ==
    LET x == items[p]
        out == IF IsArray(x) THEN Outcome(x, storage, <<>>, FALSE) ELSE Throws(x, storage)
    IN  Apply(p, Call("getSubtotal", p, "", 0, TRUE, out,
                      IF IsArray(x) THEN getSubtotal(x.v) ELSE NaN),
              out, adds[p])

\* Quantities a caller passes to updateQuantity.
Quantities == (0 - 1) .. MaxQty

CartNext ==
    \/ \E p \in CartPages : Load(p) /\ UNCHANGED <<vars, themeVars, loaderVars>>
    \/ \E p \in CartPages, product \in Products : AddItem(p, product) /\ UNCHANGED <<vars, themeVars, loaderVars>>
    \/ \E p \in CartPages, id \in Ids : RemoveItem(p, id) /\ UNCHANGED <<vars, themeVars, loaderVars>>
    \/ \E p \in CartPages, id \in Ids, q \in Quantities :
          UpdateQuantity(p, id, q) /\ UNCHANGED <<vars, themeVars, loaderVars>>
    \/ \E p \in CartPages : ClearCart(p) /\ UNCHANGED <<vars, themeVars, loaderVars>>
    \/ \E p \in CartPages : GetTotalItems(p) /\ UNCHANGED <<vars, themeVars, loaderVars>>
    \/ \E p \in CartPages : GetSubtotal(p) /\ UNCHANGED <<vars, themeVars, loaderVars>>

CartStart == Init /\ CartInit /\ ThemeIdle /\ LoaderIdle
SpecCart == CartStart /\ [][CartNext]_allVars

\* Records another script of the origin, or an older release, may have left
\* under the key.
DuplicateRecord ==
    Json(Arr(<<[id |-> "a", price |-> Num(5), image |-> Placeholder, quantity |-> 1],
               [id |-> "a", price |-> Num(5), image |-> Placeholder, quantity |-> 0]>>))
ForeignRecords ==
    {Absent, EmptyText, Garbage, Json(NullValue), Json(ObjectValue), DuplicateRecord}

CartInitAnyRecord ==
    /\ CartIdle
    /\ storage \in ForeignRecords
    /\ drawer \in Documents

CartStartAnyRecord == Init /\ CartInitAnyRecord /\ ThemeIdle /\ LoaderIdle
SpecCartAnyRecord == CartStartAnyRecord /\ [][CartNext]_allVars

\* Two tabs of the shop: every page runs its own ShopCart over the one
\* localStorage entry.  Neither document has the drawer element; the pages
\* load, add and remove.
SharedNext ==
    \/ \E p \in Pages : Load(p) /\ UNCHANGED <<vars, themeVars, loaderVars>>
    \/ \E p \in Pages, product \in Products : AddItem(p, product) /\ UNCHANGED <<vars, themeVars, loaderVars>>
    \/ \E p \in Pages, id \in Ids : RemoveItem(p, id) /\ UNCHANGED <<vars, themeVars, loaderVars>>

SharedStart ==
    Init /\ CartIdle /\ storage = Absent /\ drawer = [p \in Pages |-> FALSE] /\ ThemeIdle /\ LoaderIdle
SpecCartShared == SharedStart /\ [][SharedNext]_allVars

\* ------------------------------------------- cart with event listeners
\* document.dispatchEvent(new CustomEvent('cart:updated', {detail})) calls the
\* listeners of the document one after the other, in the order they were
\* added, before it returns; a listener may call window.ShopCart itself.
MaxListeners == 2
Listeners == 1 .. MaxListeners

\* The call a listener makes on the cart while it handles a notification
\* (updateQuantity is left to the calls without a listener).
InnerCalls ==
    {[op |-> "addItem", id |-> i, q |-> 0] : i \in Ids}
        \cup {[op |-> "removeItem", id |-> i, q |-> 0] : i \in Ids}
        \cup {[op |-> "clearCart", id |-> "", q |-> 0]}
InnerCall(c, x, store, ok, d) ==
    CASE c.op = "addItem"        -> addItem(x, store, ProductOf(c.id), ok, d)
      [] c.op = "removeItem"     -> removeItem(x, store, c.id, ok, d)
      [] OTHER                   -> clearCart(x, store, ok, d)

\* Listener l is called with event: detail.items is the array the event was
\* built with, as it is when the listener runs.
Delivery(l, event, seen) ==
    [e |-> "deliver", to |-> l, items |-> seen, total |-> event.total,
     subtotal |-> event.subtotal]

\* The run of a mutating method whose notification listener r answers with
\* the call c: listeners 1..r get the notification, r calls c, which saves and
\* notifies every listener, and only then the listeners after r get the
\* first notification.
Heard(out, r, c, ok, d) ==
    IF out.threw \/ Len(out.trace) < 2 THEN out
    ELSE LET event == out.trace[2]
             inner == InnerCall(c, out.items, out.storage, ok, d)
             \* addItem changes the array in place, removeItem and clearCart
             \* assign a new array to this.items
             seen  == IF c.op = "addItem" THEN inner.items ELSE out.items
             early == [l \in 1 .. r |-> Delivery(l, event, out.items)]
             again == IF Len(inner.trace) < 2 THEN inner.trace
                      ELSE <<inner.trace[1]>> \o
                           [l \in Listeners |-> Delivery(l, inner.trace[2], inner.items)]
             late  == [k \in 1 .. (MaxListeners - r) |-> Delivery(r + k, event, seen)]
         IN  Outcome(inner.items, inner.storage,
                     <<out.trace[1]>> \o early \o again \o late, FALSE)

\* The listener's addItem stays within the quantities of the model.
Bounded(out, c) ==
    c.op = "addItem" =>
        \A k \in 1 .. Len(out.items.v) :
            out.items.v[k].id = c.id => out.items.v[k].quantity < MaxQty

AddItemHeard(p, product) ==
    /\ \A k \in 1 .. Len(items[p].v) :
          items[p].v[k].id = product.id => items[p].v[k].quantity < MaxQty
    /\ \E ok \in BOOLEAN, again \in BOOLEAN, r \in Listeners, c \in InnerCalls :
        LET first == addItem(items[p], storage, product, ok, drawer[p])
            out == Heard(first, r, c, again, drawer[p])
        IN  /\ Bounded(first, c)
            /\ Apply(p, Call("addItem", p, product.id, 0, ok, out, Num(0)), out,
                     [i \in Ids |-> 0 - 1])

RemoveItemHeard(p, id) ==
    \E ok \in BOOLEAN, again \in BOOLEAN, r \in Listeners, c \in InnerCalls :
        LET first == removeItem(items[p], storage, id, ok, drawer[p])
            out == Heard(first, r, c, again, drawer[p])
        IN  /\ Bounded(first, c)
            /\ Apply(p, Call("removeItem", p, id, 0, ok, out, Num(0)), out,
                     [i \in Ids |-> 0 - 1])

ClearCartHeard(p) ==
    \E ok \in BOOLEAN, again \in BOOLEAN, r \in Listeners, c \in InnerCalls :
        LET first == clearCart(items[p], storage, ok, drawer[p])
            out == Heard(first, r, c, again, drawer[p])
        IN  /\ Bounded(first, c)
            /\ Apply(p, Call("clearCart", p, "", 0, ok, out, Num(0)), out,
                     [i \in Ids |-> 0 - 1])

HeardNext ==
    \/ \E p \in CartPages : Load(p) /\ UNCHANGED <<vars, themeVars, loaderVars>>
    \/ \E p \in CartPages, product \in Products : AddItemHeard(p, product) /\ UNCHANGED <<vars, themeVars, loaderVars>>
    \/ \E p \in CartPages, id \in Ids : RemoveItemHeard(p, id) /\ UNCHANGED <<vars, themeVars, loaderVars>>
    \/ \E p \in CartPages : ClearCartHeard(p) /\ UNCHANGED <<vars, themeVars, loaderVars>>

SpecCartHeard == SharedStart /\ [][HeardNext]_allVars

\* ---------------------------------------------------------- ThemeManager
SystemTheme(dark) == IF dark THEN "dark" ELSE "light"

\* setTheme(theme): the attribute is set, then the entry is written, then the
\* meta element, if the page has one.  ok is FALSE when setItem throws: the
\* rest of setTheme and of its caller is skipped.
setTheme(theme, ok) ==
    /\ dataTheme' = theme
    /\ savedTheme' = IF ok THEN theme ELSE savedTheme
    /\ metaColor' = IF ok /\ themeDoc.meta THEN (IF theme = "dark" THEN "#0a192f" ELSE "#f8f9fc")
                  ELSE metaColor

\* A visit: DOMContentLoaded runs init(), that is
\* setTheme(savedTheme || system theme) and then bindEvents().
ThemeInit ==
    /\ dataTheme = NoTheme
    /\ \E ok \in BOOLEAN :
          /\ setTheme(IF savedTheme # NoTheme THEN savedTheme ELSE SystemTheme(osDark), ok)
          /\ themeBound' = ok
    /\ themeOp' = "init"
    /\ UNCHANGED <<osDark, themeDoc, chosen>>

\* A click on #theme-toggle.
toggleTheme ==
    /\ themeBound /\ themeDoc.toggle
    /\ \E ok \in BOOLEAN :
          setTheme(IF dataTheme = "dark" THEN "light" ELSE "dark", ok)
    /\ chosen' = dataTheme'
    /\ themeOp' = "toggle"
    /\ UNCHANGED <<osDark, themeBound, themeDoc>>

\* The OS colour scheme changes; the 'change' listener of bindEvents runs in
\* an open page and follows it if nothing is stored under the key.
OsChange ==
    /\ osDark' = ~osDark
    /\ IF themeBound /\ savedTheme = NoTheme
       THEN \E ok \in BOOLEAN : setTheme(SystemTheme(osDark'), ok)
       ELSE UNCHANGED <<dataTheme, savedTheme, metaColor>>
    /\ themeOp' = "os"
    /\ UNCHANGED <<themeBound, themeDoc, chosen>>

\* The page is left for another page of the site, whose document may have
\* the toggle button and the meta element or not.
ThemeLeave ==
    /\ dataTheme # NoTheme
    /\ dataTheme' = NoTheme
    /\ themeBound' = FALSE
    /\ themeDoc' \in [toggle : BOOLEAN, meta : BOOLEAN]
    /\ metaColor' = NoTheme
    /\ themeOp' = "leave"
    /\ UNCHANGED <<savedTheme, osDark, chosen>>

ThemeNext ==
    \/ ThemeInit /\ UNCHANGED <<vars, cartVars, loaderVars>>
    \/ toggleTheme /\ UNCHANGED <<vars, cartVars, loaderVars>>
    \/ OsChange /\ UNCHANGED <<vars, cartVars, loaderVars>>
    \/ ThemeLeave /\ UNCHANGED <<vars, cartVars, loaderVars>>

\* A first visit, under either colour scheme.
ThemeStart ==
    /\ Init /\ CartInit /\ drawer = [p \in Pages |-> FALSE] /\ LoaderIdle
    /\ dataTheme = NoTheme
    /\ savedTheme = NoTheme
    /\ themeBound = FALSE
    /\ themeDoc = [toggle |-> TRUE, meta |-> TRUE]
    /\ metaColor = NoTheme
    /\ chosen = NoTheme
    /\ themeOp = "none"
    /\ osDark \in BOOLEAN
SpecTheme == ThemeStart /\ [][ThemeNext]_allVars

\* --------------------------------------------------------- ContentLoader
\* The data file a data-content value is loaded from; "gallery" stands for a
\* value the switch does not know.
Known(kind) == kind # "gallery"
DataTypeOf(kind) == IF kind = "services" THEN "services" ELSE "projects"

\* fetchData(type) up to its first await: a cached file is returned, else
\* fetch(path) is issued.
Cached(c) == dataCache[DataTypeOf(kindOf[c])] # NoData
Misses(S, t) == {c \in S : Known(kindOf[c]) /\ DataTypeOf(kindOf[c]) = t /\ ~Cached(c)}

\* loadContent(container) for the containers of S, one after the other in
\* one task: each call runs to the await of fetchData and returns.
loadContent(S) ==
    /\ cpc' = [c \in Containers |->
                  IF c \notin S THEN cpc[c]
                  ELSE IF ~Known(kindOf[c]) THEN Stage("ignored")
                  ELSE IF Cached(c) THEN Stage("rendered")
                  ELSE Stage("fetching")]
    /\ shown' = [c \in Containers |->
                    IF c \in S /\ Known(kindOf[c]) /\ Cached(c)
                    THEN dataCache[DataTypeOf(kindOf[c])] ELSE shown[c]]
    /\ fetches' = [t \in DataTypes |-> fetches[t] + Cardinality(Misses(S, t))]
    /\ UNCHANGED <<kindOf, dataCache>>

\* DOMContentLoaded: init() calls loadContent for every [data-content].
LoaderInit ==
    /\ \A c \in Containers : cpc[c].pc = "idle"
    /\ loadContent(Containers)

\* Another script loads a container again through window.ContentLoader.
LoadAgain(c) ==
    /\ cpc[c].pc \in {"rendered", "error", "ignored"}
    /\ \A t \in DataTypes : fetches[t] + Cardinality(Misses({c}, t)) <= MaxFetch
    /\ loadContent({c})

\* fetch(path) resolves with an ok response whose body is revision r.
FetchResolves(c, r) ==
    /\ cpc[c].pc = "fetching"
    /\ cpc' = [cpc EXCEPT ![c] = [pc |-> "parsing", body |-> r]]
    /\ UNCHANGED <<kindOf, dataCache, fetches, shown>>

\* fetch rejects or the response is not ok: loadContent catches, showError.
FetchFails(c) ==
    /\ cpc[c].pc = "fetching"
    /\ cpc' = [cpc EXCEPT ![c] = Stage("error")]
    /\ UNCHANGED <<kindOf, dataCache, fetches, shown>>

\* response.json() resolves: the data is cached and the container rendered.
JsonParsed(c) ==
    /\ cpc[c].pc = "parsing"
    /\ dataCache' = [dataCache EXCEPT ![DataTypeOf(kindOf[c])] = cpc[c].body]
    /\ shown' = [shown EXCEPT ![c] = cpc[c].body]
    /\ cpc' = [cpc EXCEPT ![c] = Stage("rendered")]
    /\ UNCHANGED <<kindOf, fetches>>

\* response.json() rejects: the body is no JSON.
JsonFails(c) ==
    /\ cpc[c].pc = "parsing"
    /\ cpc' = [cpc EXCEPT ![c] = Stage("error")]
    /\ UNCHANGED <<kindOf, dataCache, fetches, shown>>

LoaderNext ==
    \/ LoaderInit /\ UNCHANGED <<vars, cartVars, themeVars>>
    \/ \E c \in Containers : LoadAgain(c) /\ UNCHANGED <<vars, cartVars, themeVars>>
    \/ \E c \in Containers, r \in 1 .. MaxRevision :
          FetchResolves(c, r) /\ UNCHANGED <<vars, cartVars, themeVars>>
    \/ \E c \in Containers : FetchFails(c) /\ UNCHANGED <<vars, cartVars, themeVars>>
    \/ \E c \in Containers : JsonParsed(c) /\ UNCHANGED <<vars, cartVars, themeVars>>
    \/ \E c \in Containers : JsonFails(c) /\ UNCHANGED <<vars, cartVars, themeVars>>

\* A page with any data-content attributes on its containers.
LoaderStart ==
    /\ Init /\ CartInit /\ drawer = [p \in Pages |-> FALSE] /\ ThemeIdle
    /\ cpc = [c \in Containers |-> Stage("idle")]
    /\ dataCache = [t \in DataTypes |-> NoData]
    /\ fetches = [t \in DataTypes |-> 0]
    /\ shown = [c \in Containers |-> NoData]
    /\ kindOf \in [Containers -> ContentTypes]
SpecLoader == LoaderStart /\ [][LoaderNext]_allVars

\* ------------------------------------------------- service worker, whole
Next ==
    \/ \E w \in Workers : Deploy(w) /\ UNCHANGED <<cartVars, themeVars, loaderVars>>
    \/ \E w \in Workers : InstallOpen(w) /\ UNCHANGED <<cartVars, themeVars, loaderVars>>
    \/ \E w \in Workers : InstallAddAll(w) /\ UNCHANGED <<cartVars, themeVars, loaderVars>>
    \/ \E w \in Workers : StartActivate(w) /\ UNCHANGED <<cartVars, themeVars, loaderVars>>
    \/ \E w \in Workers, n \in Names : ActivateDelete(w, n) /\ UNCHANGED <<cartVars, themeVars, loaderVars>>
    \/ \E w \in Workers : ActivateClaim(w) /\ UNCHANGED <<cartVars, themeVars, loaderVars>>
    \/ OpenPage /\ UNCHANGED <<cartVars, themeVars, loaderVars>>
    \/ ClosePage /\ UNCHANGED <<cartVars, themeVars, loaderVars>>
    \/ \E h \in Handlers, w \in Workers, req \in Requests : FetchEvent(h, w, req) /\ UNCHANGED <<cartVars, themeVars, loaderVars>>
    \/ \E h \in Handlers : FetchMatch(h) /\ UNCHANGED <<cartVars, themeVars, loaderVars>>
    \/ \E h \in Handlers : FetchNetOk(h) /\ UNCHANGED <<cartVars, themeVars, loaderVars>>
    \/ \E h \in Handlers : FetchNetFail(h) /\ UNCHANGED <<cartVars, themeVars, loaderVars>>
    \/ \E h \in Handlers : FetchOffline(h) /\ UNCHANGED <<cartVars, themeVars, loaderVars>>
    \/ \E h \in Handlers : FetchPutOk(h) /\ UNCHANGED <<cartVars, themeVars, loaderVars>>
    \/ \E h \in Handlers : FetchPutFail(h) /\ UNCHANGED <<cartVars, themeVars, loaderVars>>

\* The service worker runs whatever the pages' carts hold: the cart is kept
\* at its first-visit state.
Start == Init /\ CartInit /\ drawer = [p \in Pages |-> FALSE] /\ ThemeIdle /\ LoaderIdle
Spec == Start /\ [][Next]_allVars

\* ================================================================ claims
Handled(h) == ev[h].pc \notin {"idle", "bypassed"}
Hit(h) == ev[h].cached # None
Finished(h) == ev[h].pc \in {"done", "terminated"}

\* C1: a worker whose pre-cache failed during install never reaches the
\* activating or active state (so the previous worker stays in control
\* and its store is not deleted).
C1_FailedInstallNeverActivates ==
    \A w \in Workers :
        precache[w] = "failed" => wstate[w] \notin {"activating", "activated"}

\* C2: install is all-or-nothing: once install has finished, the store
\* named for the version holds no manifest URL when some fetch failed and
\* every manifest URL when all fetches succeeded.
C2_InstallAllOrNothing ==
    \A w \in Workers :
        wstate[w] = "installed" =>
            /\ precache[w] \in {"ok", "failed"}
            /\ precache[w] = "failed" =>
                  \A u \in PRE_CACHE_URLS : CacheMatch(w, u) = None
            /\ precache[w] = "ok" =>
                  \A u \in PRE_CACHE_URLS : CacheMatch(w, u) # None

C2_Witness ==
    \E w \in Workers :
        /\ wstate[w] = "installed" /\ precache[w] = "failed"
        /\ Exists(w)
        /\ \A u \in PRE_CACHE_URLS : content[w][u] = None

\* C3: when the activate transition completes, the store named for the
\* activated version is the only store that exists; a lookup in any
\* other store finds nothing.
C3_OnlyCurrentStoreAfterActivate ==
    [][\A w \in Workers :
          (wstate[w] = "activating" /\ wstate'[w] = "activated") =>
              /\ Has(cacheNames', w)
              /\ \A n \in Names \ {w} :
                    /\ ~Has(cacheNames', n)
                    /\ \A u \in URLS : content'[n][u] = None]_vars

C3_Witness ==
    /\ MaxWorkers >= 2
    /\ wstate[2] = "activated" /\ wstate[1] = "redundant"
    /\ precache[1] = "ok"
    /\ cacheNames = <<2>>

\* C4: on a cache hit whose network fetch fails, the page receives exactly
\* the cached response and no store changes.
C4_HitSurvivesNetworkFailure ==
    [][\A h \in Handlers :
          (Hit(h) /\ ev'[h].net = Failed /\ ev'[h] # ev[h]) =>
              /\ ev'[h].resp = ev[h].cached
              /\ ev'[h].cached = ev[h].cached
              /\ content' = content]_vars

C4_Witness ==
    \E h \in Handlers :
        /\ ev[h].pc = "done" /\ Hit(h) /\ ev[h].net = Failed
        /\ ev[h].resp = ev[h].cached
        /\ content[ev[h].w][ev[h].req.url] = ev[h].cached

\* C5: an intercepted request that accepts HTML, misses the cache and
\* whose network fetch fails is answered with the offline fallback
\* document, whatever the state of the stores.
C5_HtmlMissGetsOfflinePage ==
    \A h \in Handlers :
        (ev[h].pc = "done" /\ AcceptsHtml(ev[h].req) /\ ~Hit(h)
            /\ ev[h].net = Failed) =>
        (IsResponse(ev[h].resp) /\ ev[h].resp.url = OFFLINE_URL)

\* C6: on a cache hit the response is the cached one from the moment the
\* network fetch is started, whatever the network does afterwards.
C6_HitDoesNotWaitForNetwork ==
    \A h \in Handlers :
        (Handled(h) /\ ev[h].pc # "match" /\ Hit(h)) =>
            ev[h].resp = ev[h].cached

C6_Witness ==
    \E h \in Handlers :
        /\ ev[h].pc = "net" /\ ev[h].net = Pending
        /\ Hit(h) /\ ev[h].resp = ev[h].cached

\* C7 (as stated): once an intercepted request is over and its network
\* fetch gave a 200 basic response, the store entry has been replaced by
\* that response.
C7_AlwaysRevalidated ==
    \A h \in Handlers :
        (Finished(h) /\ IsResponse(ev[h].net) /\ Cacheable(ev[h].net)) =>
            ev[h].put = "ok"

\* C7 (amended): every intercepted request, hit or miss, starts a network
\* fetch; a 200 basic response, and no other, starts a cache write; when
\* that write succeeds and the worker's store has not been deleted by a
\* newer version meanwhile, the entry for the URL is that response; and a
\* request that looks the URL up is served the entry the store holds.
C7_RevalidatedWhenWriteSucceeds ==
    [][\A h \in Handlers :
          /\ (ev[h].pc = "match" /\ ev'[h].pc # "match") =>
                /\ ev'[h].net = Pending
                /\ ev'[h].cached = CacheMatch(ev[h].w, ev[h].req.url)
                /\ Hit(h)' => ev'[h].resp = ev'[h].cached
          /\ (ev[h].pc = "net" /\ IsResponse(ev'[h].net)) =>
                (Cacheable(ev'[h].net) <=> ev'[h].put = "pending")
          /\ (ev[h].put = "pending" /\ ev'[h].put = "ok") =>
                IF Exists(ev[h].w)
                THEN /\ Has(cacheNames', ev[h].w)
                     /\ content'[ev[h].w][ev[h].req.url] = ev[h].net
                ELSE UNCHANGED <<cacheNames, content>>]_vars

C7_Witness ==
    \E h, g \in Handlers :
        /\ h # g
        /\ ev[h].put = "ok" /\ Hit(h) /\ ev[h].cached # ev[h].net
        /\ ev[g].req.url = ev[h].req.url
        /\ ev[g].cached = ev[h].net /\ ev[g].resp = ev[h].net

\* C8: every cache entry answers a GET request with a success status and
\* type basic; a network response that is not 200 basic is handed to the
\* page (on a miss) and written nowhere.
StoredValid ==
    \A n \in Names, u \in URLS :
        content[n][u] # None =>
            /\ content[n][u].url = u
            /\ content[n][u].method = "GET"
            /\ OkStatus(content[n][u].status)
            /\ content[n][u].type = "basic"

C9_InterceptedIffGetSameOriginNotAdmin ==
    \A h \in Handlers :
        ev[h].pc # "idle" =>
            (Handled(h) <=> (/\ ev[h].req.method = "GET"
                             /\ SameOrigin(ev[h].req.url)
                             /\ ~UnderAdmin(ev[h].req.url)))

\* C10: a failed cache write leaves the page's response as it was: the
\* network response on a miss, the cached response on a hit.
C10_PutFailureNeverReachesPage ==
    \A h \in Handlers :
        ev[h].put = "failed" =>
            /\ IsResponse(ev[h].resp)
            /\ ev[h].resp = (IF Hit(h) THEN ev[h].cached ELSE ev[h].net)

C10_Witness ==
    \E h \in Handlers :
        /\ ev[h].put = "failed" /\ ~Hit(h)
        /\ ev[h].resp = ev[h].net /\ ev[h].resp.status = 200
\* ----------------------------------------------------------- cart claims
Mutating == {"addItem", "removeItem", "updateQuantity", "clearCart"}
Lines(x, id) == {k \in 1 .. Len(x.v) : x.v[k].id = id}

\* C11: from a cart with no line item for id X, n >= 1 calls of addItem with
\* X, interleaved with calls on other ids, leave exactly one line item for X
\* and its quantity is n.
C11_AddsMakeOneLineWithQuantityN ==
    \A p \in Pages, id \in Ids :
        adds[p][id] >= 1 =>
            /\ IsArray(items[p])
            /\ Cardinality(Lines(items[p], id)) = 1
            /\ \A k \in Lines(items[p], id) : items[p].v[k].quantity = adds[p][id]
C11_Witness ==
    /\ adds[1]["a"] = MaxQty
    /\ Present(items[1], "b")
    /\ items[1].v[Find(items[1].v, "a")].quantity = MaxQty

\* C12: in every reachable state, whatever record was persisted and whatever
\* quantity was passed, the cart has at most one line item per product id and
\* every quantity is an integer >= 1.
C12_OneLinePerIdPositiveQuantity ==
    \A p \in Pages :
        IsArray(items[p]) =>
            /\ \A id \in Ids : Cardinality(Lines(items[p], id)) <= 1
            /\ \A k \in 1 .. Len(items[p].v) : items[p].v[k].quantity >= 1

\* The step just taken was a call of op on the page lastOp' names.
Called(ops) == lastOp'.op \in ops
Before == items[lastOp'.page]
After == items'[lastOp'.page]

\* C13 (as stated): for every id, present or absent, and every newQuantity <= 0,
\* updateQuantity(id, q) leaves the same items, the same persisted record and
\* emits the same notifications as removeItem(id).
C13_NonPositiveUpdateIsRemove ==
    [][(Called({"updateQuantity"}) /\ lastOp'.q <= 0) =>
          LET r == removeItem(Before, storage, lastOp'.id, lastOp'.ok, drawer[lastOp'.page])
          IN  /\ After = r.items
              /\ storage' = r.storage
              /\ lastOp'.trace = r.trace]_cartVars
\* C13 (amended): the same, for every id that has a line item in the cart.
C13_NonPositiveUpdateOfPresentIsRemove ==
    [][(/\ Called({"updateQuantity"})
        /\ lastOp'.q <= 0
        /\ Present(Before, lastOp'.id)) =>
          LET r == removeItem(Before, storage, lastOp'.id, lastOp'.ok, drawer[lastOp'.page])
          IN  /\ After = r.items
              /\ storage' = r.storage
              /\ lastOp'.trace = r.trace
              /\ ~Present(After, lastOp'.id)]_cartVars
C13_Witness ==
    /\ lastOp.op = "updateQuantity"
    /\ lastOp.q = 0
    /\ Len(lastOp.trace) = 2
    /\ ~Present(items[1], lastOp.id)
    /\ Len(items[1].v) = 1

\* Sums written without the fold of the code.
RECURSIVE SumOver(_, _)
SumOver(f, S) ==
    IF S = {} THEN 0
    ELSE LET k == CHOOSE j \in S : TRUE IN f[k] + SumOver(f, S \ {k})
QuantitySum(x) ==
    SumOver([k \in 1 .. Len(x.v) |-> x.v[k].quantity], 1 .. Len(x.v))
PriceSum(x) ==
    IF \E k \in 1 .. Len(x.v) : x.v[k].price.t = "nan" THEN NaN
    ELSE Num(SumOver([k \in 1 .. Len(x.v) |->
                         IF x.v[k].price.t = "num"
                         THEN x.v[k].price.v * x.v[k].quantity ELSE 0],
                     1 .. Len(x.v)))

\* C14: getTotalItems() returns the sum of the quantities and getSubtotal()
\* the sum of price * quantity of the current line items; neither changes
\* the items or the persisted record, neither emits a notification.
C14_ReadsReturnSumsAndChangeNothing ==
    [][/\ Called({"getTotalItems"}) => lastOp'.result = Num(QuantitySum(Before))
       /\ Called({"getSubtotal"}) => lastOp'.result = PriceSum(Before)
       /\ Called({"getTotalItems", "getSubtotal"}) =>
             /\ items' = items
             /\ storage' = storage
             /\ lastOp'.trace = <<>>
             /\ ~lastOp'.threw]_cartVars
C14_Witness ==
    /\ lastOp.op = "getTotalItems"
    /\ Len(items[1].v) = 2
    /\ lastOp.result = Num(MaxQty + 1)

\* What a fresh ShopCart of another page holds after its load().
Reloaded == load(storage', TRUE)
\* The write of the call just made succeeded.
Wrote == lastOp'.trace # <<>> /\ lastOp'.ok
\* The items with every price that is no finite number replaced by null.
FinitePrices(x) ==
    Arr([k \in 1 .. Len(x.v) |->
            IF x.v[k].price.t = "num" THEN x.v[k]
            ELSE [x.v[k] EXCEPT !.price = JsNull]])

\* C15 (as stated): after any mutating call returns, load() on a fresh
\* ShopCart sharing the storage yields the items held in memory; after
\* clearCart() it yields the empty cart.
C15_ReloadYieldsMemory ==
    [][Called(Mutating) =>
          /\ Reloaded = After
          /\ Called({"clearCart"}) => Reloaded = Arr(<<>>)]_cartVars
\* C15 (amended): after a mutating call whose storage write succeeded, load()
\* on a fresh ShopCart yields the items held in memory, except that a price
\* that is no finite number comes back as null; after such a clearCart() it
\* yields the empty cart.
C15_ReloadYieldsMemoryAfterWrite ==
    [][(Called(Mutating) /\ Wrote) =>
          /\ Reloaded = FinitePrices(After)
          /\ (\A k \in 1 .. Len(After.v) : After.v[k].price.t = "num")
                => Reloaded = After
          /\ Called({"clearCart"}) => Reloaded = Arr(<<>>)]_cartVars
C15_Witness ==
    /\ lastOp.op = "updateQuantity"
    /\ lastOp.ok
    /\ Len(lastOp.trace) = 2
    /\ Len(items[1].v) = 2
    /\ load(storage, TRUE) # items[1]
    /\ load(storage, TRUE) = FinitePrices(items[1])

C17_WriteFailureKeepsMemoryAndNotifies ==
    [][(Called(Mutating) /\ lastOp'.trace # <<>> /\ ~lastOp'.ok) =>
          /\ ~lastOp'.threw
          /\ storage' = storage
          /\ Len(lastOp'.trace) = 2
          /\ lastOp'.trace[2].e = "notify"
          /\ lastOp'.trace[2].items = After]_cartVars

\* C18: load() never throws, and whatever is stored under the key the cart
\* afterwards is a sequence of line items, so that every later call works.
C18_LoadAlwaysYieldsACart ==
    /\ \A p \in Pages : IsArray(items[p])
    /\ lastOp.op \in Mutating \cup {"getTotalItems", "getSubtotal"} => ~lastOp.threw

OtherThan(id, item) == item.id # id

\* C23: addItem for an id in the cart adds one to that line item's quantity
\* and changes nothing else; for an id not in the cart it appends one line
\* item at the end, with quantity one and the placeholder image when none
\* was given, every other line item keeping content and position;
\* removeItem(id) removes only the line item with that id and keeps the order.
C23_AddAndRemoveTouchOneLine ==
    [][/\ (Called({"addItem"}) /\ Present(Before, lastOp'.id)) =>
             /\ Len(After.v) = Len(Before.v)
             /\ \A k \in 1 .. Len(Before.v) :
                   After.v[k] = IF Before.v[k].id = lastOp'.id
                                THEN [Before.v[k] EXCEPT !.quantity = @ + 1]
                                ELSE Before.v[k]
       /\ (Called({"addItem"}) /\ ~Present(Before, lastOp'.id)) =>
             /\ Len(After.v) = Len(Before.v) + 1
             /\ SubSeq(After.v, 1, Len(Before.v)) = Before.v
             /\ After.v[Len(After.v)].id = lastOp'.id
             /\ After.v[Len(After.v)].quantity = 1
             /\ After.v[Len(After.v)].image =
                   IF ProductOf(lastOp'.id).image = "" THEN Placeholder
                   ELSE ProductOf(lastOp'.id).image
       /\ Called({"removeItem"}) =>
             After.v = SelectSeq(Before.v, LAMBDA item : OtherThan(lastOp'.id, item))
      ]_cartVars
C23_Witness ==
    /\ lastOp.op = "addItem" /\ lastOp.id = "a"
    /\ Len(items[1].v) = 2
    /\ items[1].v[1].id = "b" /\ items[1].v[1].quantity = MaxQty
    /\ items[1].v[2].id = "a" /\ items[1].v[2].quantity = 1
    /\ items[1].v[2].image = Placeholder
C23_WitnessRemove ==
    /\ lastOp.op = "removeItem" /\ lastOp.id = "a"
    /\ Len(lastOp.trace) = 2
    /\ lastOp.trace[2].total = MaxQty
    /\ Len(items[1].v) = 1

\* C24: updateQuantity(id, q) with q > 0 sets the quantity of the line item
\* with that id to exactly q and leaves every other line item as it was;
\* for an id not in the cart it does nothing: items and the persisted record
\* stay as they were and no notification is emitted.
C24_UpdateSetsQuantityOrDoesNothing ==
    [][/\ (Called({"updateQuantity"}) /\ lastOp'.q > 0 /\ Lines(Before, lastOp'.id) # {}) =>
             /\ Len(After.v) = Len(Before.v)
             /\ \A k \in 1 .. Len(Before.v) :
                   After.v[k] = IF Before.v[k].id = lastOp'.id
                                THEN [Before.v[k] EXCEPT !.quantity = lastOp'.q]
                                ELSE Before.v[k]
       /\ (Called({"updateQuantity"}) /\ Lines(Before, lastOp'.id) = {}) =>
             /\ After = Before
             /\ storage' = storage
             /\ lastOp'.trace = <<>>
             /\ ~lastOp'.threw
      ]_cartVars
C24_Witness ==
    /\ lastOp.op = "updateQuantity" /\ lastOp.id = "b" /\ lastOp.q = MaxQty
    /\ Len(lastOp.trace) = 2
    /\ lastOp.trace[2].total = MaxQty + 1
    /\ Len(items[1].v) = 2
    /\ items[1].v[2].id = "b" /\ items[1].v[2].quantity = MaxQty
C24_WitnessAbsent ==
    /\ lastOp.op = "updateQuantity" /\ lastOp.id = "b" /\ lastOp.q = MaxQty
    /\ lastOp.trace = <<>>
    /\ Len(items[1].v) = 1
    /\ storage # Absent

\* C29 (as stated): whenever a storage write succeeds, the persisted record
\* equals the full in-memory item sequence at that moment; one successful
\* mutating call after failed writes brings the record back in step.
C29_RecordEqualsMemory ==
    [][(Called(Mutating) /\ Wrote) =>
          /\ ~ParseThrows(storage')
          /\ JSONParse(storage') = After]_cartVars
\* C29 (amended): whenever a storage write succeeds, the persisted record is
\* the JSON text of the full in-memory sequence at that moment: every line
\* item, in order, with its id, image and quantity, and its price when that
\* is a finite number (null otherwise); this also holds when the record was
\* out of step after failed writes.  A write that fails leaves the record
\* as it was.
C29_RecordIsFullSnapshot ==
    [][Called(Mutating) =>
          /\ Wrote => storage' = Json(FinitePrices(After))
          /\ (Wrote /\ storage # Json(FinitePrices(Before))) =>
                JSONParse(storage') = FinitePrices(items'[lastOp'.page])
          /\ ~Wrote => storage' = storage]_cartVars
C29_Witness ==
    /\ lastOp.op \in Mutating /\ lastOp.ok /\ lastOp.trace # <<>>
    /\ Len(items[1].v) = 2
    /\ storage = Json(FinitePrices(items[1]))
    /\ \E k \in 1 .. 2 : items[1].v[k].price.t = "nan"
C29_WitnessOutOfStep ==
    /\ lastOp.op \in Mutating /\ ~lastOp.ok /\ lastOp.trace # <<>>
    /\ Len(items[1].v) = 2
    /\ storage # Absent
    /\ storage # Json(FinitePrices(items[1]))

\* The product ids of the line items a record holds.
RecordIds(store) ==
    IF store.t = "json" /\ IsArray(store.v)
    THEN {store.v.v[k].id : k \in 1 .. Len(store.v.v)}
    ELSE {}

\* C27: with two pages sharing the storage key, the persisted record keeps
\* the effect of every mutation made in either page: a line item one page
\* holds and has persisted is still in the record after a mutation of the
\* other page that does not remove it.
C27_NoLostUpdateAcrossPages ==
    [][(Called({"addItem", "removeItem"}) /\ Wrote) =>
          \A o \in Pages \ {lastOp'.page} :
              storage = JSONStringify(items[o]) =>
                  \A id \in RecordIds(storage) :
                      \/ Called({"removeItem"}) /\ lastOp'.id = id
                      \/ id \in RecordIds(storage')
      ]_cartVars

\* The notifications listener l got during the call just made, by their
\* place in the trace, and the writes of that call.
Got(l) == {k \in 1 .. Len(lastOp'.trace) :
              lastOp'.trace[k].e = "deliver" /\ lastOp'.trace[k].to = l}
Writes == {k \in 1 .. Len(lastOp'.trace) : lastOp'.trace[k].e = "write"}
IsLast(k, S) == k \in S /\ \A j \in S : j <= k

\* C28: when a listener calls a mutating method while a notification is
\* delivered, then once the outer call returns the persisted record is the
\* snapshot of the items in memory (if the last write succeeded), and the
\* last notification every listener got carries the final items, their
\* total count and their subtotal.
C28_ReentrantCallLeavesFinalState ==
    [][(Called(Mutating) /\ Cardinality(Writes) = 2) =>
          /\ (\A k \in Writes : IsLast(k, Writes) => lastOp'.trace[k].ok) =>
                storage' = Json(FinitePrices(After))
          /\ \A l \in Listeners : \A k \in Got(l) :
                IsLast(k, Got(l)) =>
                    /\ lastOp'.trace[k].items = After
                    /\ lastOp'.trace[k].total = QuantitySum(After)
                    /\ lastOp'.trace[k].subtotal = PriceSum(After)
      ]_cartVars

\* ------------------------------------------------- page script claims
\* C25: as long as the user has not used the toggle, the page has the theme
\* of the OS colour scheme: at initialization, and after every change of the
\* OS preference while the page is open; a click on the toggle flips the
\* theme, and the theme chosen that way is the one the next visit starts with.
C25_FollowsSystemUntilToggled ==
    [][/\ (themeOp' = "init" /\ chosen = NoTheme) =>
             dataTheme' = SystemTheme(osDark)
       /\ (themeOp' = "os" /\ themeBound /\ chosen = NoTheme) =>
             dataTheme' = SystemTheme(osDark')
       /\ themeOp' = "toggle" =>
             dataTheme' \in {"dark", "light"} \ {dataTheme}
       /\ (themeOp' = "init" /\ chosen # NoTheme /\ savedTheme = chosen) =>
             dataTheme' = chosen
      ]_themeVars

\* C26: when the loads of the containers of a page are started together,
\* at most one network fetch is issued for each data file, however many
\* containers are rendered from it.
C26_OneFetchPerDataFile ==
    [][((\A c \in Containers : cpc[c].pc = "idle")
            /\ (\E c \in Containers : cpc'[c].pc # "idle")) =>
          \A t \in DataTypes : fetches'[t] <= 1]_loaderVars

\* ------------------------------------------- service worker claims, 19-20
\* C19: an intercepted request that does not accept HTML, misses the cache
\* and whose network fetch fails is answered with null (a failure), never
\* with the offline fallback document, even when that document is stored.
C19_AssetMissFailsWithoutFallback ==
    \A h \in Handlers :
        (Finished(h) /\ Handled(h) /\ ~AcceptsHtml(ev[h].req) /\ ~Hit(h)
            /\ ev[h].net = Failed) =>
        (ev[h].resp = Null /\ ~IsResponse(ev[h].resp))
C19_Witness ==
    \E h \in Handlers :
        /\ ev[h].pc = "done" /\ ~AcceptsHtml(ev[h].req) /\ ~Hit(h)
        /\ ev[h].net = Failed
        /\ ev[h].resp = Null
        /\ IsResponse(CachesMatch(OFFLINE_URL))

\* C20: skipWaiting() is requested only once every manifest URL is in the
\* worker's store, and clients.claim() happens only once no store other
\* than the worker's own is left.
C20_SkipAfterPrecacheClaimAfterDeletes ==
    [][\A w \in Workers :
          /\ (skipFlag'[w] /\ ~skipFlag[w]) =>
                /\ Has(cacheNames', w)
                /\ \A u \in PRE_CACHE_URLS : IsResponse(content'[w][u])
          /\ (claimed'[w] /\ ~claimed[w]) =>
                /\ toDelete[w] = {}
                /\ \A n \in Names \ {w} : ~Has(cacheNames', n)]_vars
C20_Witness ==
    /\ MaxWorkers >= 2
    /\ claimed[2] /\ skipFlag[2] /\ wstate[2] = "activated"
    /\ claimed[1] /\ skipFlag[1]
    /\ cacheNames = <<2>>
    /\ \A u \in PRE_CACHE_URLS : IsResponse(content[2][u])

\* ------------------------------------------- service worker claims, 21-30
\* v is a previous version: a later version has completed its activation.
Previous(v) ==
    v \in Workers /\ \E w \in Workers : v < w /\ wstate[w] = "activated"

\* C21: once a version has completed its activation, no store named for a
\* previous version exists; handlers of the previous version that are still
\* running neither re-create nor write such a store, and the response they
\* gave is not replaced by anything read afterwards.
C21_NoPreviousStoreAfterActivation ==
    [][/\ \A v \in Workers :
             Previous(v)' => (~Has(cacheNames', v) /\ content'[v] = EmptyStore)
       /\ \A h \in Handlers :
             (Previous(ev[h].w) /\ ev'[h] # ev[h]) =>
                 /\ ev'[h].resp = ev[h].resp
                 /\ UNCHANGED <<cacheNames, content>>]_vars
C21_Witness ==
    /\ MaxWorkers >= 2
    /\ wstate[2] = "activated" /\ wstate[1] = "redundant"
    /\ ~Exists(1)
    /\ \E h \in Handlers : ev[h].w = 1 /\ ev[h].pc = "put"

\* The handlers of worker w for URL u, and those whose network response is
\* one the listener writes to the store.
For(w, u) == {h \in Handlers : ev[h].w = w /\ ev[h].req.url = u /\ Handled(h)}
Fetched(w, u) == {h \in For(w, u) : IsResponse(ev[h].net) /\ Cacheable(ev[h].net)}

\* C22: when every request for a URL is over and every cache write of its
\* handlers succeeded, the store entry is the response of the network fetch
\* that resolved last.
C22_LastFetchedResponseIsStored ==
    \A w \in Workers, u \in URLS :
        (/\ Exists(w)
         /\ Fetched(w, u) # {}
         /\ \A h \in For(w, u) : ev[h].pc = "done"
         /\ \A h \in Fetched(w, u) : ev[h].put = "ok") =>
            \E h \in Fetched(w, u) :
                /\ \A g \in Fetched(w, u) : ev[g].at <= ev[h].at
                /\ content[w][u] = ev[h].net

\* C30: a handler reads and writes only the store named for its own
\* version: the offline fallback it serves is the one its own store holds,
\* and its cache write changes no other store.
C30_OnlyOwnStore ==
    [][\A h \in Handlers :
          /\ (ev[h].pc = "offline" /\ ev'[h].pc = "done" /\ ~Hit(h)) =>
                ev'[h].resp = CacheMatch(ev[h].w, OFFLINE_URL)
          /\ (ev[h].pc = "put" /\ ev'[h].pc = "done") =>
                \A n \in Names \ {ev[h].w} : content'[n] = content[n]]_vars

====
